---- MODULE Spec2Model ----
(***************************************************************************)
(* JsonDB (src/src/index.ts): a key-value store keeping one JSON document  *)
(* per key in the file <dataDir>/<key>.json.                               *)
(*                                                                         *)
(* JavaScript values are tagged records.  A path expression is held as the *)
(* sequence of segments lodash's castPath splits the dotted string into;   *)
(* an absent (undefined) path is the empty sequence.  Strings are atomic:  *)
(* their characters and "length" are not addressed by any modelled path,   *)
(* nor is the "length" of an array.  File contents are either absent, not  *)
(* decodable, or the JSON text of a document, held as the JSON value.      *)
(***************************************************************************)
EXTENDS Integers, Sequences, FiniteSets, TLC

VARIABLES
    proxy,        \* options.proxy
    files,        \* the data directory: file path -> contents
    last,         \* the call that has just completed and what it gave back
    held,         \* the object a caller kept from the result of a call
    procs         \* two more processes on the same directory, each inside a set

vars == <<proxy, files, last, held, procs>>

-----------------------------------------------------------------------------
(* Bounds of the model.                                                    *)

\* documents hold numbers of absolute value at most MaxNum
MaxNum == 2
\* documents are made of at most MaxSize values (members and elements counted)
MaxSize == 4

-----------------------------------------------------------------------------
(* JavaScript values.                                                      *)

Undefined == [t |-> "undefined"]
Null == [t |-> "null"]
NaN == [t |-> "nan"]
Inf(neg) == [t |-> "inf", neg |-> neg]
Num(n) == [t |-> "num", n |-> n]
Str(s) == [t |-> "str", s |-> s]
Bool(b) == [t |-> "bool", b |-> b]
Obj(f) == [t |-> "obj", f |-> f]
Arr(a) == [t |-> "arr", a |-> a]

NoFields == [x \in {} |-> Undefined]
EmptyObj == Obj(NoFields)

\* lodash isNil: null or undefined
isNil(v) == v.t \in {"undefined", "null"}
\* lodash isString
isString(v) == v.t = "str"
\* lodash isObject: objects and arrays, no primitive
isObject(v) == v.t \in {"obj", "arr"}

\* the absent path argument, and whether a path argument is nil
NoPath == <<>>
isNilPath(path) == path = NoPath

\* the segments that name array indices (lodash isIndex), and the index named
IndexSegs == <<"0", "1", "2">>
isIndex(seg) == \E i \in 1..Len(IndexSegs) : IndexSegs[i] = seg
IndexOf(seg) == (CHOOSE i \in 1..Len(IndexSegs) : IndexSegs[i] = seg) - 1

\* object[key] for a property key
Prop(object, key) ==
    CASE object.t = "obj" ->
            IF key \in DOMAIN object.f THEN object.f[key] ELSE Undefined
      [] object.t = "arr" ->
            IF isIndex(key) /\ IndexOf(key) < Len(object.a)
            THEN object.a[IndexOf(key) + 1] ELSE Undefined
      [] OTHER -> Undefined

\* Object.prototype.hasOwnProperty.call(object, key)  (lodash baseHas)
baseHas(object, key) ==
    CASE object.t = "obj" -> key \in DOMAIN object.f
      [] object.t = "arr" -> isIndex(key) /\ IndexOf(key) < Len(object.a)
      [] OTHER -> FALSE

\* lodash get(object, path): walk the segments while the value is not nil
RECURSIVE _get(_, _)
_get(object, path) ==
    IF path = <<>> THEN object
    ELSE IF isNil(object) THEN Undefined
    ELSE _get(Prop(object, Head(path)), Tail(path))

\* lodash has(object, path): every segment is an own property on the way down
RECURSIVE _has(_, _)
_has(object, path) ==
    IF path = <<>> THEN FALSE
    ELSE IF ~baseHas(object, Head(path)) THEN FALSE
    ELSE IF Len(path) = 1 THEN TRUE
    ELSE _has(Prop(object, Head(path)), Tail(path))

\* object[key] = value.  An array grows with holes up to an index past its
\* end; a property of an array that is no index is not part of its JSON text
\* and is not kept.
Holes(n) == [i \in 1..n |-> Undefined]
Assign(object, key, value) ==
    CASE object.t = "obj" ->
            Obj([k \in DOMAIN object.f \cup {key} |->
                    IF k = key THEN value ELSE object.f[k]])
      [] object.t = "arr" ->
            IF ~isIndex(key) THEN object
            ELSE IF IndexOf(key) < Len(object.a)
            THEN Arr([object.a EXCEPT ![IndexOf(key) + 1] = value])
            ELSE Arr(object.a \o Holes(IndexOf(key) - Len(object.a)) \o <<value>>)
      [] OTHER -> object

\* lodash set(object, path, value): nothing on a primitive or nil; a segment
\* whose value is no object is replaced by [] when the next segment is an
\* index and by {} otherwise.
RECURSIVE _set(_, _, _)
_set(object, path, value) ==
    IF ~isObject(object) THEN object
    ELSE LET key == Head(path)
             objValue == Prop(object, key)
             inner == IF isObject(objValue) THEN objValue
                      ELSE IF isIndex(path[2]) THEN Arr(<<>>) ELSE EmptyObj
         IN  Assign(object, key,
                    IF Len(path) = 1 THEN value
                    ELSE _set(inner, Tail(path), value))

-----------------------------------------------------------------------------
(* JSON text.                                                              *)

\* JSON.stringify(value, null, 2): undefined for undefined; NaN and the
\* infinities become null; an undefined member of an object is left out and an
\* undefined element of an array becomes null.
RECURSIVE stringify(_)
stringify(v) ==
    CASE v.t \in {"nan", "inf"} -> Null
      [] v.t = "obj" ->
            Obj([k \in {x \in DOMAIN v.f : v.f[x].t # "undefined"} |-> stringify(v.f[k])])
      [] v.t = "arr" ->
            Arr([i \in 1..Len(v.a) |->
                    IF v.a[i].t = "undefined" THEN Null ELSE stringify(v.a[i])])
      [] OTHER -> v

\* file contents
NoFile == [t |-> "nofile"]
Corrupt == [t |-> "corrupt"]
Text(json) == [t |-> "text", json |-> json]

\* JSON.parse(fs.readFileSync(dbPath)) succeeds
Readable(content) == content.t = "text"
\* JSON.parse of the text of a file
parse(content) == content.json
\* fs.existsSync(dbPath)
existsSync(fs, dbPath) == fs[dbPath].t # "nofile"

-----------------------------------------------------------------------------
(* Keys and file paths.                                                    *)

\* key.toString(): a string is itself, the number 42 is "42"
toString(key) == IF key.t = "str" THEN key.s ELSE "42"

\* getPath(key): resolve(cwd, dataDir, key + ".json"), relative to cwd
dataDir == "data"
getPath(key) == dataDir \o "/" \o key \o ".json"

-----------------------------------------------------------------------------
(* What a call gives back: the files it leaves, the value it returns or    *)
(* the error it raises, the number of fs.writeFileSync calls it completed, *)
(* and whether the value returned is an observation wrapper (a Proxy).     *)

Returned(fs, ret, w, wrapped) ==
    [files |-> fs, ret |-> ret, threw |-> "none", writes |-> w, wrapped |-> wrapped]
Thrown(fs, err, w) ==
    [files |-> fs, ret |-> Undefined, threw |-> err, writes |-> w, wrapped |-> FALSE]
After(w, r) == [r EXCEPT !.writes = @ + w]

\* "if (this.options.proxy) return new Proxy(data, ...); else return data":
\* new Proxy raises a TypeError on a target that is no object.
Observe(fs, data, w) ==
    IF proxy
    THEN IF isObject(data) THEN Returned(fs, data, w, TRUE)
         ELSE Thrown(fs, "TypeError", w)
    ELSE Returned(fs, data, w, FALSE)

\* fs.writeFileSync(dbPath, text)
writeFileSync(fs, dbPath, json) == [fs EXCEPT ![dbPath] = Text(json)]

\* the try/catch of get: the document read, or {} after writing "{}" (the
\* directory of the file is made first when it is missing)
ReadOrInitMutNoWrite(fs, dbPath) ==
    IF Readable(fs[dbPath])
    THEN [files |-> fs, data |-> parse(fs[dbPath]), writes |-> 0]
    ELSE [files |-> fs, data |-> EmptyObj, writes |-> 0]
ReadOrInitMutOnlyIfMissing(fs, dbPath) ==
    IF Readable(fs[dbPath])
    THEN [files |-> fs, data |-> parse(fs[dbPath]), writes |-> 0]
    ELSE IF existsSync(fs, dbPath)
    THEN [files |-> fs, data |-> EmptyObj, writes |-> 0]
    ELSE [files |-> writeFileSync(fs, dbPath, EmptyObj), data |-> EmptyObj, writes |-> 1]
ReadOrInit(fs, dbPath) ==
    IF Readable(fs[dbPath])
    THEN [files |-> fs, data |-> parse(fs[dbPath]), writes |-> 0]
    ELSE [files |-> writeFileSync(fs, dbPath, EmptyObj), data |-> EmptyObj, writes |-> 1]

get(fs, key, path) ==
    IF isNil(key) THEN Returned(fs, Null, 0, FALSE)
    ELSE LET r == ReadOrInit(fs, getPath(toString(key)))
         IN  IF ~isNilPath(path)
             THEN Returned(r.files, _get(r.data, path), r.writes, FALSE)
             ELSE Observe(r.files, r.data, r.writes)

\* the document set() serializes: the value itself without a path, the
\* document read with the value set at the path otherwise
NewDataMutMerges(data, value, path) ==
    IF ~isNilPath(path)
    THEN _set(IF isNil(data) THEN EmptyObj ELSE data, path, value)
    ELSE IF data.t = "obj" /\ value.t = "obj"
    THEN Obj([k \in DOMAIN data.f \cup DOMAIN value.f |->
                IF k \in DOMAIN value.f THEN value.f[k] ELSE data.f[k]])
    ELSE value
NewDataMutStartsEmpty(data, value, path) ==
    IF ~isNilPath(path) THEN _set(EmptyObj, path, value) ELSE value
NewData(data, value, path) ==
    IF ~isNilPath(path)
    THEN _set(IF isNil(data) THEN EmptyObj ELSE data, path, value)
    ELSE value

\* lodash assignValue leaves a property alone that already holds the value
\* (SameValueZero: the same primitive, or the same object)
Assigns(object, path, value) ==
    LET key == Head(path)
        objValue == Prop(object, key)
    IN  IF Len(path) = 1
        THEN ~(baseHas(object, key) /\ ~isObject(value) /\ objValue = value)
        ELSE ~isObject(objValue)

\* writes made by the set trap of the wrapper that set() got from get(): one
\* when _set assigns a property of the top-level document
TrapWrites(data, value, path) ==
    IF proxy /\ ~isNilPath(path) /\ isObject(data) /\ Assigns(data, path, value)
    THEN 1 ELSE 0

\* the files after that write: the trap serializes the wrapped document as it
\* is when the first segment has been assigned, to the value when the path has
\* one segment, to the container _set has just made for the next otherwise
TrapWritten(fs, dbPath, data, value, path) ==
    IF TrapWrites(data, value, path) = 1
    THEN writeFileSync(fs, dbPath,
             stringify(Assign(data, Head(path),
                 IF Len(path) = 1 THEN value
                 ELSE IF isIndex(path[2]) THEN Arr(<<>>) ELSE EmptyObj)))
    ELSE fs

\* JSON.stringify(undefined) is undefined, which fs.writeFileSync rejects with
\* a TypeError before it opens the file (Node 14 and later).
\* a set that reads the file before it looks at the key
setMutReadsFirst(fs, key, value, path) ==
    LET g == get(fs, Str(toString(key)), NoPath)
        data == NewData(g.ret, value, path)
        w == g.writes + TrapWrites(g.ret, value, path)
        dbPath == getPath(toString(key))
    IN  IF isNil(key) THEN Thrown(fs, "InvalidKey", 0)
        ELSE IF g.threw # "none" THEN g
        ELSE IF ~isString(key) THEN Thrown(g.files, "InvalidKey", g.writes)
        ELSE IF stringify(data).t = "undefined" THEN Thrown(g.files, "TypeError", w)
        ELSE Observe(writeFileSync(g.files, dbPath, stringify(data)), data, w + 1)

set(fs, key, value, path) ==
    IF isNil(key) \/ ~isString(key) THEN Thrown(fs, "InvalidKey", 0)
    ELSE LET g == get(fs, key, NoPath)
             data == NewData(g.ret, value, path)
             w == g.writes + TrapWrites(g.ret, value, path)
             dbPath == getPath(toString(key))
         IN  IF g.threw # "none" THEN g
             ELSE IF stringify(data).t = "undefined" THEN Thrown(g.files, "TypeError", w)
             ELSE Observe(writeFileSync(g.files, dbPath, stringify(data)), data, w + 1)

\* a has that reads the document whether a path is given or not
hasMutAlwaysReads(fs, key, path) ==
    IF isNil(key) THEN Thrown(fs, "TypeError", 0)
    ELSE LET g == get(fs, Str(toString(key)), NoPath)
         IN  IF g.threw # "none" THEN g
             ELSE IF ~isNilPath(path)
             THEN Returned(g.files, Bool(_has(g.ret, path)), g.writes, FALSE)
             ELSE Returned(g.files, Bool(existsSync(fs, getPath(toString(key)))),
                           g.writes, FALSE)

has(fs, key, path) ==
    IF isNil(key) THEN Thrown(fs, "TypeError", 0)
    ELSE IF ~isNilPath(path)
    THEN LET g == get(fs, Str(toString(key)), NoPath)
         IN  IF g.threw # "none" THEN g
             ELSE Returned(g.files, Bool(_has(g.ret, path)), g.writes, FALSE)
    ELSE Returned(fs, Bool(existsSync(fs, getPath(toString(key)))), 0, FALSE)

\* options.cloneLevel: the store is constructed with the default level.  The
\* levels differ in which objects the clone shares with the original, which
\* values do not carry.
cloneLevel == "deep"

\* this.clone(data): equal to data at every clone level
clone(data) ==
    CASE cloneLevel = "none" -> data
      [] cloneLevel = "shallow" -> data
      [] cloneLevel = "deep" -> data

\* an ensure that takes a key whose document is {} for a key without a file
ensureMutByContent(fs, key, defaultValue, path) ==
    IF isNil(defaultValue) THEN Thrown(fs, "MissingDefault", 0)
    ELSE LET h == has(fs, key, path)
             empty == ~isNil(key) /\ fs[getPath(toString(key))] = Text(EmptyObj)
         IN  IF h.threw # "none" THEN h
             ELSE IF h.ret = Bool(TRUE) /\ ~empty
             THEN After(h.writes, get(h.files, key, path))
             ELSE LET c == IF isNilPath(path) THEN clone(defaultValue) ELSE defaultValue
                      s == After(h.writes, set(h.files, key, c, path))
                  IN  IF s.threw # "none" THEN s
                      ELSE Returned(s.files, c, s.writes, FALSE)

ensure(fs, key, defaultValue, path) ==
    IF isNil(defaultValue) THEN Thrown(fs, "MissingDefault", 0)
    ELSE LET h == has(fs, key, path)
         IN  IF h.threw # "none" THEN h
             ELSE IF h.ret = Bool(TRUE) THEN After(h.writes, get(h.files, key, path))
             ELSE LET c == IF isNilPath(path) THEN clone(defaultValue) ELSE defaultValue
                      s == After(h.writes, set(h.files, key, c, path))
                  IN  IF s.threw # "none" THEN s
                      ELSE Returned(s.files, c, s.writes, FALSE)

\* Array.prototype.push on the array a
ArrayPushMutUnshift(a, val) == Arr(<<val>> \o a.a)
ArrayPush(a, val) == Arr(Append(a.a, val))

\* push(): the value read (the sub-value at the path when a path is given) is
\* what is appended to, re-addressed by the path, and stored as the document.
\* Appending through a wrapper makes its trap write twice (element, length).
push(fs, key, val, path) ==
    LET g == get(fs, key, path)
        data == g.ret
        propValue == _get(data, path)
        target == IF ~isNilPath(path) THEN propValue ELSE data
        pushed == IF ~isNilPath(path)
                  THEN _set(data, path, ArrayPush(propValue, val))
                  ELSE ArrayPush(data, val)
        trapped == g.wrapped
        fs1 == IF trapped
               THEN writeFileSync(g.files, getPath(toString(key)), stringify(pushed))
               ELSE g.files
        w == g.writes + (IF trapped THEN 2 ELSE 0)
        s == After(w, set(fs1, key, pushed, NoPath))
    IN  IF g.threw # "none" THEN g
        ELSE IF target.t # "arr" THEN Thrown(g.files, "TypeError", g.writes)
        ELSE IF s.threw # "none" THEN s
        ELSE Observe(s.files, pushed, s.writes)

-----------------------------------------------------------------------------
(* Arithmetic.                                                             *)

\* the operator names of mathOp's switch, by case group
AddOps == {"add", "addition", "+"}
SubOps == {"sub", "subtract", "-"}
MultOps == {"mult", "multiply", "*"}
DivOps == {"div", "divide", "/"}
ExpOps == {"exp", "exponent", "^"}
ModOps == {"mod", "modulo", "%"}
RandOps == {"rand", "random"}
BinaryOps == AddOps \cup SubOps \cup MultOps \cup DivOps \cup ExpOps \cup ModOps

\* ToNumber of the values arithmetic is modelled on
Coercible(v) == v.t \in {"num", "null", "bool", "undefined"}
ToNumber(v) ==
    CASE v.t = "num" -> v
      [] v.t = "null" -> Num(0)
      [] v.t = "bool" -> Num(IF v.b THEN 1 ELSE 0)
      [] v.t = "undefined" -> NaN

Abs(n) == IF n < 0 THEN -n ELSE n
RECURSIVE Pow(_, _)
Pow(a, b) == IF b = 0 THEN 1 ELSE a * Pow(a, b - 1)

\* a / b on doubles holding integers; a quotient that is no integer has no
\* value here, see MathDefined
Divide(a, b) ==
    IF b = 0 THEN (IF a = 0 THEN NaN ELSE Inf(a < 0))
    ELSE Num(CHOOSE q \in -Abs(a)..Abs(a) : q * b = a)
\* Math.pow(a, b)
Exponent(a, b) ==
    IF b >= 0 THEN Num(Pow(a, b))
    ELSE IF a = 0 THEN Inf(FALSE)
    ELSE Num(CHOOSE q \in {-1, 1} : q * Pow(a, -b) = 1)
\* a % b: the remainder has the sign of the dividend
Remainder(a, b) ==
    IF b = 0 THEN NaN
    ELSE Num((IF a < 0 THEN -1 ELSE 1) * (Abs(a) % Abs(b)))

\* the calls whose result is a value of the model: the base converts to a
\* number without going through a string, and the quotient or power is an
\* integer
MathDefined(base, op, opand) ==
    IF op \notin BinaryOps THEN TRUE
    ELSE IF ~Coercible(base) THEN FALSE
    ELSE IF ToNumber(base).t = "nan" THEN TRUE
    ELSE IF op \in DivOps /\ opand # 0 THEN ToNumber(base).n % Abs(opand) = 0
    ELSE IF op \in ExpOps /\ opand < 0 THEN ToNumber(base).n \in {-1, 0, 1}
    ELSE TRUE

\* the values Math.floor(Math.random() * Math.floor(opand)) can take
RandomOutcomes(opand) ==
    IF opand > 0 THEN 0..(opand - 1) ELSE opand..0

mathOp(base, op, opand, rnd) ==
    LET b == ToNumber(base)
    IN  CASE op \in RandOps -> Num(rnd)
          [] op \notin BinaryOps \cup RandOps -> Null
          [] op \in ExpOps /\ opand = 0 -> Num(1)
          [] op \in BinaryOps /\ ~(op \in ExpOps /\ opand = 0) /\ b.t = "nan" -> NaN
          [] op \in AddOps /\ b.t = "num" -> Num(b.n + opand)
          [] op \in SubOps /\ b.t = "num" -> Num(b.n - opand)
          [] op \in MultOps /\ b.t = "num" -> Num(b.n * opand)
          [] op \in DivOps /\ b.t = "num" -> Divide(b.n, opand)
          [] op \in ExpOps /\ opand # 0 /\ b.t = "num" -> Exponent(b.n, opand)
          [] op \in ModOps /\ b.t = "num" -> Remainder(b.n, opand)

math(fs, key, op, opand, path, rnd) ==
    LET g == get(fs, key, path)
    IN  IF g.threw # "none" THEN g
        ELSE After(g.writes, set(g.files, key, mathOp(g.ret, op, opand, rnd), path))

-----------------------------------------------------------------------------
(* The arguments the calls are made with.  Inputs bundles the argument     *)
(* sets of one specification.                                              *)

Paths == {<<"a">>, <<"0">>, <<"a", "0">>}
Values ==
    { Undefined, Null, Num(1), Str("s"), Bool(TRUE),
      Obj([k \in {"a"} |-> Num(1)]), Arr(<<Num(1)>>) }
Operators == BinaryOps \cup RandOps \cup {"pow"}

\* documents of every shape, little arithmetic
DocInputs ==
    [keys |-> {Str("k1")}, paths |-> {NoPath} \cup Paths, values |-> Values,
     operations |-> {"add", "pow"}, operands |-> {1}]
\* every operator name on numbers, at the top level and in a field
MathInputs ==
    [keys |-> {Str("k1")}, paths |-> {NoPath, <<"a">>},
     values |-> {Num(1), Obj([k \in {"a"} |-> Num(1)])},
     operations |-> Operators, operands |-> 0..MaxNum]

\* keys that are no strings, few documents
KeyInputs ==
    [keys |-> {Str("k1"), Num(42), Null}, paths |-> {NoPath, <<"a">>},
     values |-> {Undefined, Num(1), Arr(<<Num(1)>>)},
     operations |-> {"add", "pow"}, operands |-> {1}]

FilePaths == {getPath("k1"), getPath("42")}

\* the documents within the bounds
RECURSIVE Sum(_, _)
Sum(f, S) == IF S = {} THEN 0 ELSE LET x == CHOOSE y \in S : TRUE IN f[x] + Sum(f, S \ {x})
RECURSIVE Size(_)
Size(v) ==
    CASE v.t = "arr" -> 1 + Sum([i \in DOMAIN v.a |-> Size(v.a[i])], DOMAIN v.a)
      [] v.t = "obj" -> 1 + Sum([k \in DOMAIN v.f |-> Size(v.f[k])], DOMAIN v.f)
      [] OTHER -> 1
RECURSIVE NumbersInBounds(_)
NumbersInBounds(v) ==
    CASE v.t = "num" -> Abs(v.n) <= MaxNum
      [] v.t = "arr" -> \A i \in DOMAIN v.a : NumbersInBounds(v.a[i])
      [] v.t = "obj" -> \A k \in DOMAIN v.f : NumbersInBounds(v.f[k])
      [] OTHER -> TRUE
InBounds(v) == Size(v) <= MaxSize /\ NumbersInBounds(v)
Bounded(fs) == \A p \in DOMAIN fs : fs[p].t = "text" => InBounds(fs[p].json)

-----------------------------------------------------------------------------
(* The store as a state machine: a caller makes one call at a time and     *)
(* takes its result before the next.                                       *)

Idle == [op |-> "idle"]
\* the caller holds on to no result
NoHandle == [t |-> "none"]
\* the other processes, and none of them has called set
Procs == {1, 2}
NotCalled == [p \in Procs |-> [pc |-> "idle", alone |-> TRUE]]

Init ==
    /\ proxy \in BOOLEAN
    /\ files = [p \in FilePaths |-> NoFile]
    /\ last = Idle
    /\ held = NoHandle
    /\ procs = NotCalled

\* the call op(args) completes with the result r
Completes(op, args, r) ==
    /\ last = Idle
    /\ Bounded(r.files)
    /\ files' = r.files
    /\ last' = [op |-> op, args |-> args, pre |-> files, ret |-> r.ret,
                threw |-> r.threw, writes |-> r.writes, wrapped |-> r.wrapped]
    /\ UNCHANGED <<proxy, held, procs>>

Get(key, path) ==
    /\ last = Idle
    /\ \E r \in {get(files, key, path)} :
          Completes("get", [key |-> key, path |-> path], r)

Set(key, value, path) ==
    /\ last = Idle
    /\ \E r \in {set(files, key, value, path)} :
          Completes("set", [key |-> key, value |-> value, path |-> path], r)

Has(key, path) ==
    /\ last = Idle
    /\ \E r \in {has(files, key, path)} :
          Completes("has", [key |-> key, path |-> path], r)

Ensure(key, defaultValue, path) ==
    /\ last = Idle
    /\ \E r \in {ensure(files, key, defaultValue, path)} :
          Completes("ensure", [key |-> key, value |-> defaultValue, path |-> path], r)

Push(key, val, path) ==
    /\ last = Idle
    /\ \E r \in {push(files, key, val, path)} :
          Completes("push", [key |-> key, value |-> val, path |-> path], r)

Math(key, op, opand, path) ==
    /\ last = Idle
    /\ \E g \in {get(files, key, path)} :
          g.threw = "none" => MathDefined(g.ret, op, opand)
    /\ \E rnd \in (IF op \in RandOps THEN RandomOutcomes(opand) ELSE {0}) :
          \E r \in {math(files, key, op, opand, path, rnd)} :
              Completes("math", [key |-> key, operation |-> op, operand |-> opand,
                                 path |-> path], r)

\* the caller takes the result
Return ==
    /\ last # Idle
    /\ last' = Idle
    /\ UNCHANGED <<proxy, files, held, procs>>

\* another program writes bytes that are no JSON to the file of a key
ExternalWrite(dbPath) ==
    /\ last = Idle
    /\ files[dbPath] # Corrupt
    /\ files' = [files EXCEPT ![dbPath] = Corrupt]
    /\ UNCHANGED <<proxy, last, held, procs>>

\* another program removes the file of a key
ExternalRemove(dbPath) ==
    /\ last = Idle
    /\ files[dbPath] # NoFile
    /\ files' = [files EXCEPT ![dbPath] = NoFile]
    /\ UNCHANGED <<proxy, last, held, procs>>

Step(in) ==
    \/ \E key \in in.keys, path \in in.paths : Get(key, path)
    \/ \E key \in in.keys, value \in in.values, path \in in.paths : Set(key, value, path)
    \/ \E key \in in.keys, path \in in.paths : Has(key, path)
    \/ \E key \in in.keys, value \in in.values, path \in in.paths : Ensure(key, value, path)
    \/ \E key \in in.keys, value \in in.values, path \in in.paths : Push(key, value, path)
    \/ \E key \in in.keys, op \in in.operations, opand \in in.operands, path \in in.paths :
          Math(key, op, opand, path)
    \/ Return
    \/ \E dbPath \in FilePaths : ExternalWrite(dbPath)
    \/ \E dbPath \in FilePaths : ExternalRemove(dbPath)

Next == Step(DocInputs)
Spec == Init /\ [][Next]_vars

NextMath == Step(MathInputs)
SpecMath == Init /\ [][NextMath]_vars

NextKeys == Step(KeyInputs)
SpecKeys == Init /\ [][NextKeys]_vars

-----------------------------------------------------------------------------
(* Results that are kept and assigned to.                                  *)

\* the Proxy layers around a returned object: get and ensure return the
\* wrapper get built, set without a path wraps the value it was given, set with
\* a path and push wrap the wrapper they got from get a second time
Layers ==
    IF ~last.wrapped THEN 0
    ELSE IF last.op = "push" \/ (last.op = "set" /\ ~isNilPath(last.args.path))
    THEN 2 ELSE 1

\* the set trap of a wrapper: target[key] = value, then the whole target is
\* written to the file of the key the wrapper was made for
\* a trap that writes the target as it was before the assignment
trapSetMutWritesBefore(fs, dbPath, target, key, value) ==
    [files |-> writeFileSync(fs, dbPath, stringify(target)),
     target |-> Assign(target, key, value)]

\* a trap that reads the file again and assigns in the document it finds
trapSetMutRereads(fs, dbPath, target, key, value) ==
    LET t == Assign(IF Readable(fs[dbPath]) /\ isObject(parse(fs[dbPath]))
                    THEN parse(fs[dbPath]) ELSE target, key, value)
    IN  [files |-> writeFileSync(fs, dbPath, stringify(t)), target |-> t]

trapSet(fs, dbPath, target, key, value) ==
    LET t == Assign(target, key, value)
    IN  [files |-> writeFileSync(fs, dbPath, stringify(t)), target |-> t]

\* the caller keeps the object a call returned, wrapped or not
Keep ==
    /\ last # Idle
    /\ last.op \in {"get", "set", "ensure", "push"}
    /\ last.threw = "none" /\ isObject(last.ret)
    /\ held' = [t |-> "handle", key |-> last.args.key, path |-> last.args.path,
                from |-> last.op, target |-> last.ret, layers |-> Layers]
    /\ last' = Idle
    /\ UNCHANGED <<proxy, files, procs>>

\* the caller assigns w[f] = y on the object it kept: through each layer of
\* a wrapper the trap runs, on a plain object the assignment stays in memory
PropertyAssign(f, y) ==
    /\ last = Idle
    /\ held # NoHandle
    /\ LET dbPath == getPath(toString(held.key))
           r == IF held.layers > 0 THEN trapSet(files, dbPath, held.target, f, y)
                ELSE [files |-> files, target |-> Assign(held.target, f, y)]
       IN  /\ InBounds(stringify(r.target))
           /\ files' = r.files
           /\ held' = [held EXCEPT !.target = r.target]
           /\ last' = [op |-> "assign",
                       args |-> [key |-> held.key, path |-> held.path,
                                 field |-> f, value |-> y],
                       pre |-> files, target |-> held.target, from |-> held.from,
                       ret |-> y, threw |-> "none", writes |-> held.layers,
                       wrapped |-> held.layers > 0]
    /\ UNCHANGED <<proxy, procs>>

\* the properties assigned and the values given to them
Fields == {"a", "0"}
Assigned == {Str("s"), Num(2)}

\* calls on one key, of which the results are kept
ObserveKey == Str("k1")
ObservePaths == {NoPath, <<"a">>}
ObserveValues == {Num(1), Obj([k \in {"a"} |-> Arr(<<>>)]), Arr(<<Num(1)>>)}

NextObserve ==
    \/ \E path \in ObservePaths : Get(ObserveKey, path)
    \/ \E value \in ObserveValues, path \in ObservePaths : Set(ObserveKey, value, path)
    \/ \E value \in ObserveValues, path \in ObservePaths : Ensure(ObserveKey, value, path)
    \/ \E value \in ObserveValues, path \in ObservePaths : Push(ObserveKey, value, path)
    \/ Return
    \/ Keep
    \/ \E f \in Fields, y \in Assigned : PropertyAssign(f, y)
SpecObserve == Init /\ [][NextObserve]_vars

-----------------------------------------------------------------------------
(* Two processes on one data directory, each calling set(k, v, p) once: the *)
(* file is read by one system call and written by a later one.             *)

RaceKey == Str("k1")
RaceDbPath == getPath(toString(RaceKey))
RacePath == [p \in Procs |-> IF p = 1 THEN <<"a">> ELSE <<"b">>]
RaceValues == {Num(1), Str("s")}
\* what the file of the key holds before either process calls
RaceDocs == {NoFile, Corrupt, Text(EmptyObj), Text(Obj([k \in {"c"} |-> Num(1)]))}

InitRace ==
    /\ proxy \in BOOLEAN
    /\ \E d \in RaceDocs :
          files = [f \in FilePaths |-> IF f = RaceDbPath THEN d ELSE NoFile]
    /\ last = Idle
    /\ held = NoHandle
    /\ procs = NotCalled

\* process q is inside its call
Inside(q) == procs[q].pc \notin {"idle", "done"}

\* process p calls set(k, value, RacePath[p]): the key is a string
RaceCall(p, value) ==
    /\ procs[p].pc = "idle"
    /\ procs' = [procs EXCEPT ![p] =
                    [pc |-> "read", alone |-> \A q \in Procs \ {p} : ~Inside(q),
                     value |-> value, data |-> Undefined, threw |-> "none"]]
    /\ UNCHANGED <<proxy, files, last, held>>

\* what get makes of the data it has: a wrapper needs an object
RaceGot(p, data) ==
    IF proxy /\ ~isObject(data)
    THEN [procs EXCEPT ![p].pc = "done", ![p].threw = "TypeError"]
    ELSE [procs EXCEPT ![p].pc = "assign", ![p].data = data]

\* a read that takes the file to be empty
RaceReadMutStartsEmpty(p) ==
    /\ procs[p].pc = "read"
    /\ procs' = RaceGot(p, EmptyObj)
    /\ UNCHANGED <<proxy, files, last, held>>

\* this.get(key): JSON.parse(fs.readFileSync(dbPath)), or the catch is entered
RaceRead(p) ==
    /\ procs[p].pc = "read"
    /\ procs' = IF Readable(files[RaceDbPath])
                THEN RaceGot(p, parse(files[RaceDbPath]))
                ELSE [procs EXCEPT ![p].pc = "init"]
    /\ UNCHANGED <<proxy, files, last, held>>

\* the catch of get: fs.writeFileSync(dbPath, "{}"); data = {}
RaceInit(p) ==
    /\ procs[p].pc = "init"
    /\ files' = writeFileSync(files, RaceDbPath, EmptyObj)
    /\ procs' = RaceGot(p, EmptyObj)
    /\ UNCHANGED <<proxy, last, held>>

\* _set(data, path, value) on what get returned: through a wrapper the
\* assignment of the one segment of the path makes the trap write the file
RaceAssign(p) ==
    /\ procs[p].pc = "assign"
    /\ LET data == NewData(procs[p].data, procs[p].value, RacePath[p])
       IN  /\ procs' = [procs EXCEPT ![p].pc = "write", ![p].data = data]
           /\ files' = TrapWritten(files, RaceDbPath, procs[p].data, procs[p].value,
                                   RacePath[p])
    /\ UNCHANGED <<proxy, last, held>>

\* fs.writeFileSync(dbPath, JSON.stringify(data, null, 2)), and set returns
RaceWrite(p) ==
    /\ procs[p].pc = "write"
    /\ files' = writeFileSync(files, RaceDbPath, stringify(procs[p].data))
    /\ procs' = [procs EXCEPT ![p].pc = "done"]
    /\ UNCHANGED <<proxy, last, held>>

NextRace ==
    \E p \in Procs :
        \/ \E value \in RaceValues : RaceCall(p, value)
        \/ RaceRead(p)
        \/ RaceInit(p)
        \/ RaceAssign(p)
        \/ RaceWrite(p)
SpecRace == InitRace /\ [][NextRace]_vars

-----------------------------------------------------------------------------
(* The earlier variant of the module (src/unnamed/part_000): the options   *)
(* dataDir and proxy, the operations get and set.                          *)

\* resolve(process.cwd(), dataDir, key + ".json"): the same file, named from
\* the working directory
getDbPath(key) == dataDir \o "/" \o key \o ".json"

get_part000(fs, key, path) ==
    IF isNil(key) THEN Returned(fs, Null, 0, FALSE)
    ELSE LET r == ReadOrInit(fs, getDbPath(toString(key)))
         IN  IF ~isNilPath(path)
             THEN Returned(r.files, _get(r.data, path), r.writes, FALSE)
             ELSE Observe(r.files, r.data, r.writes)

\* set() of the variant: the document is read and changed in memory and
\* returned; the only write of the file is that of the trap of get's wrapper
set_part000(fs, key, value, path) ==
    IF isNil(key) \/ ~isString(key) THEN Thrown(fs, "InvalidKey", 0)
    ELSE LET g == get_part000(fs, key, NoPath)
             data == NewData(g.ret, value, path)
             dbPath == getDbPath(toString(key))
         IN  IF g.threw # "none" THEN g
             ELSE Observe(TrapWritten(g.files, dbPath, g.ret, value, path), data,
                          g.writes + TrapWrites(g.ret, value, path))

GetPart000(key, path) ==
    /\ last = Idle
    /\ \E r \in {get_part000(files, key, path)} :
          Completes("get", [key |-> key, path |-> path], r)

SetPart000(key, value, path) ==
    /\ last = Idle
    /\ \E r \in {set_part000(files, key, value, path)} :
          Completes("set", [key |-> key, value |-> value, path |-> path], r)

NextPart000 ==
    \/ \E key \in DocInputs.keys, path \in DocInputs.paths : GetPart000(key, path)
    \/ \E key \in DocInputs.keys, value \in DocInputs.values, path \in DocInputs.paths :
          SetPart000(key, value, path)
    \/ Return
    \/ \E dbPath \in FilePaths : ExternalWrite(dbPath)
    \/ \E dbPath \in FilePaths : ExternalRemove(dbPath)
SpecPart000 == Init /\ [][NextPart000]_vars

-----------------------------------------------------------------------------
(* Vocabulary of the properties.                                           *)

\* the values JSON text represents exactly
RECURSIVE IsJson(_)
IsJson(v) ==
    CASE v.t \in {"null", "num", "str", "bool"} -> TRUE
      [] v.t = "arr" -> \A i \in DOMAIN v.a : IsJson(v.a[i])
      [] v.t = "obj" -> \A k \in DOMAIN v.f : IsJson(v.f[k])
      [] OTHER -> FALSE

\* the last call was op, made with or without a path
Called(op) == last # Idle /\ last.op = op
CalledOn(op, withPath) == Called(op) /\ (isNilPath(last.args.path) <=> ~withPath)

\* the file of the key of the last call, before the call and now
LastPath == getPath(toString(last.args.key))
Before == last.pre[LastPath]
Now == files[LastPath]
\* the file held the text of a document before the call
HeldDocument == Readable(Before)
DocBefore == parse(Before)

\* what get(key, path) gives in the current state
GetNow(path) == get(files, last.args.key, path)

\* the locations a property looks at, and those apart from the path p
ProbeSegs == {"a", "0", "1"}
ProbePaths == UNION {[1..n -> ProbeSegs] : n \in 1..2}
IsPrefix(p, q) == Len(p) <= Len(q) /\ \A i \in 1..Len(p) : p[i] = q[i]
Apart(p) == {q \in ProbePaths : ~IsPrefix(p, q) /\ ~IsPrefix(q, p)}

-----------------------------------------------------------------------------
\* C1: round trip.  Whatever the file of k held (nothing, bytes that are no
\* JSON, any document), once set(k, v) without a path has returned for a
\* JSON-representable v, the file of k holds the text of v and get(k) without
\* a path returns a value equal to v.
C1_RoundTrip ==
    (CalledOn("set", FALSE) /\ last.threw = "none" /\ IsJson(last.args.value))
        => /\ Now = Text(last.args.value)
           /\ GetNow(NoPath).threw = "none"
           /\ GetNow(NoPath).ret = last.args.value

\* set(k, [1]) has returned over a file that was not decodable
C1_Witness ==
    /\ CalledOn("set", FALSE) /\ last.threw = "none"
    /\ last.args.value = Arr(<<Num(1)>>)
    /\ Before = Corrupt

\* C2: path isolation.  When the file of k holds an object d, set(k, v, p)
\* with a JSON-representable v returns, and afterwards get(k) is an object in
\* which p holds v, whose members are those of d and the first segment of p,
\* and in which every location apart from p holds what it held in d.
C2_PathIsolation ==
    (CalledOn("set", TRUE) /\ HeldDocument /\ DocBefore.t = "obj"
            /\ IsJson(last.args.value))
        => /\ last.threw = "none"
           /\ GetNow(NoPath).threw = "none"
           /\ GetNow(NoPath).ret.t = "obj"
           /\ _get(GetNow(NoPath).ret, last.args.path) = last.args.value
           /\ DOMAIN GetNow(NoPath).ret.f = DOMAIN DocBefore.f \cup {Head(last.args.path)}
           /\ \A q \in Apart(last.args.path) :
                 _get(GetNow(NoPath).ret, q) = _get(DocBefore, q)

\* set(k, v, "0") has been applied to the document {a: 1}
C2_Witness ==
    /\ CalledOn("set", TRUE) /\ HeldDocument
    /\ DocBefore = Obj([k \in {"a"} |-> Num(1)])
    /\ last.args.path = <<"0">> /\ last.args.value = Str("s")
    /\ Now = Text(Obj([k \in {"a", "0"} |-> IF k = "a" THEN Num(1) ELSE Str("s")]))

\* C3: idempotent initialization.  get(k) on a key without a file returns {},
\* writes once and leaves the file holding {}; a second get(k) then returns {}
\* again, writes nothing and leaves every file as it is.
C3_IdempotentInit ==
    (CalledOn("get", FALSE) /\ Before = NoFile)
        => /\ last.threw = "none" /\ last.ret = EmptyObj /\ last.writes = 1
           /\ files = [last.pre EXCEPT ![LastPath] = Text(EmptyObj)]
           /\ GetNow(NoPath).threw = "none"
           /\ GetNow(NoPath).ret = EmptyObj
           /\ GetNow(NoPath).writes = 0
           /\ GetNow(NoPath).files = files

\* get(k) has run on a key without a file, with observation on
C3_Witness ==
    CalledOn("get", FALSE) /\ Before = NoFile /\ proxy /\ existsSync(files, LastPath)

\* C4: self-healing read.  When the file of k is missing or holds bytes that
\* are no JSON, get(k) raises nothing, returns {} and leaves the file of k
\* holding exactly {}.
C4_SelfHealingRead ==
    (CalledOn("get", FALSE) /\ Before \in {NoFile, Corrupt})
        => /\ last.threw = "none"
           /\ last.ret = EmptyObj
           /\ Now = Text(EmptyObj)

\* get(k) has run on a file that held bytes that are no JSON
C4_Witness ==
    CalledOn("get", FALSE) /\ Before = Corrupt /\ Now # Before

\* C7: push without path.  When the file of k holds an array a, push(k, v)
\* with a JSON-representable v returns a followed by v, and get(k) then
\* returns that same sequence.
C7_PushNoPath ==
    (CalledOn("push", FALSE) /\ HeldDocument /\ DocBefore.t = "arr"
            /\ IsJson(last.args.value))
        => /\ last.threw = "none"
           /\ last.ret.t = "arr"
           /\ Len(last.ret.a) = Len(DocBefore.a) + 1
           /\ \A i \in 1..Len(DocBefore.a) : last.ret.a[i] = DocBefore.a[i]
           /\ last.ret.a[Len(last.ret.a)] = last.args.value
           /\ GetNow(NoPath).threw = "none"
           /\ GetNow(NoPath).ret = last.ret

\* push(k, "s") has been applied to the document [1], with observation on
C7_Witness ==
    /\ CalledOn("push", FALSE) /\ HeldDocument /\ proxy
    /\ DocBefore = Arr(<<Num(1)>>) /\ last.args.value = Str("s")
    /\ Now = Text(Arr(<<Num(1), Str("s")>>))

\* C5: ensure does not overwrite.  When the file of k holds a document and,
\* with a path, the path is present in it, ensure(k, d, path?) with a non-nil
\* default d returns the value now at that location and leaves every file as
\* it was.
C5_EnsureNonOverwrite ==
    (Called("ensure") /\ ~isNil(last.args.value) /\ HeldDocument
            /\ (isNilPath(last.args.path) \/ _has(DocBefore, last.args.path)))
        => /\ last.threw = "none"
           /\ last.ret = _get(DocBefore, last.args.path)
           /\ files = last.pre

\* C6: ensure provisions.  On a key without a file, ensure(k, d) with a
\* JSON-representable default d returns d and get(k) then returns d; with a
\* path p absent from the document of k, ensure(k, d, p) returns d and
\* get(k, p) then returns d.
C6_EnsureProvisioning ==
    (Called("ensure") /\ IsJson(last.args.value) /\ ~isNil(last.args.value)
            /\ \/ isNilPath(last.args.path) /\ Before = NoFile
               \/ ~isNilPath(last.args.path) /\ HeldDocument
                    /\ ~_has(DocBefore, last.args.path))
        => /\ last.threw = "none"
           /\ last.ret = last.args.value
           /\ GetNow(last.args.path).threw = "none"
           /\ GetNow(last.args.path).ret = last.args.value

\* C8: push with path.  When the file of k holds an object d in which p holds
\* an array a, push(k, v, p) with a JSON-representable v returns a followed
\* by v, and get(k) is then d with a followed by v at p and every location
\* apart from p as in d.
C8_PushWithPath ==
    (CalledOn("push", TRUE) /\ HeldDocument /\ DocBefore.t = "obj"
            /\ _get(DocBefore, last.args.path).t = "arr" /\ IsJson(last.args.value))
        => /\ last.threw = "none"
           /\ last.ret = Arr(Append(_get(DocBefore, last.args.path).a, last.args.value))
           /\ GetNow(NoPath).threw = "none"
           /\ _get(GetNow(NoPath).ret, last.args.path) = last.ret
           /\ \A q \in Apart(last.args.path) :
                 _get(GetNow(NoPath).ret, q) = _get(DocBefore, q)

\* the operator names that are aliases of op
Aliases(op) ==
    CHOOSE G \in {AddOps, SubOps, MultOps, DivOps, ExpOps, ModOps} : op \in G
\* b op n where it is an integer
HasIntegerResult(b, op, n) ==
    IF op \in DivOps THEN n # 0 /\ b % Abs(n) = 0
    ELSE IF op \in ExpOps THEN n >= 0
    ELSE IF op \in ModOps THEN n # 0
    ELSE TRUE
IntegerResult(b, op, n) ==
    CASE op \in AddOps -> b + n
      [] op \in SubOps -> b - n
      [] op \in MultOps -> b * n
      [] op \in DivOps -> CHOOSE q \in -Abs(b)..Abs(b) : q * n = b
      [] op \in ExpOps -> Pow(b, n)
      [] op \in ModOps -> IF b < 0 THEN -(Abs(b) % Abs(n)) ELSE b % Abs(n)

\* C9: math.  When the location (k, path?) holds an integer b and b op n is
\* an integer, math(k, op, n, path?) returns, get(k, path?) then returns
\* b op n, every location apart from the path holds what it held, and every
\* alias of op leaves the same files and returns the same value.
C9_Math ==
    (Called("math") /\ last.args.operation \in BinaryOps /\ HeldDocument
            /\ _get(DocBefore, last.args.path).t = "num"
            /\ HasIntegerResult(_get(DocBefore, last.args.path).n,
                                last.args.operation, last.args.operand))
        => /\ last.threw = "none"
           /\ GetNow(last.args.path).threw = "none"
           /\ GetNow(last.args.path).ret =
                 Num(IntegerResult(_get(DocBefore, last.args.path).n,
                                   last.args.operation, last.args.operand))
           /\ \A q \in Apart(last.args.path) :
                 _get(parse(Now), q) = _get(DocBefore, q)
           /\ \A op \in Aliases(last.args.operation) :
                 LET r == math(last.pre, last.args.key, op, last.args.operand,
                               last.args.path, 0)
                 IN  r.files = files /\ r.ret = last.ret /\ r.threw = last.threw

\* C10: an unknown operator is no error.  With observation on or off, with or
\* without a path, math(k, op, n, path?) with an operator name outside the
\* table raises nothing and leaves null at the addressed location.
C10_UnknownOperator ==
    (Called("math") /\ last.args.operation \notin BinaryOps \cup RandOps)
        => /\ last.threw = "none"
           /\ Readable(Now)
           /\ _get(parse(Now), last.args.path) = Null

-----------------------------------------------------------------------------
\* C11: invalid key rejection.  set(key, v) and set(key, v, p) with a key
\* that is null or no string (the number 42) throw InvalidKey, and the call
\* writes nothing: every file, that of the key included, is as it was before.
C11_InvalidKeyRejection ==
    (Called("set") /\ (isNil(last.args.key) \/ ~isString(last.args.key)))
        => /\ last.threw = "InvalidKey"
           /\ last.writes = 0
           /\ files = last.pre

\* set(42, v, "a") has been called while no file data/42.json existed
C11_Witness ==
    /\ CalledOn("set", TRUE) /\ last.args.key = Num(42)
    /\ last.threw = "InvalidKey"
    /\ last.pre[getPath("42")] = NoFile /\ files[getPath("42")] = NoFile

\* C12: existence check side effects.  has(k) without a path returns whether
\* the file of k existed, whatever it held, and writes nothing: every file is
\* as it was.  has(k, p) on a key without a file creates the file holding {},
\* touches no other file, and returns false.
C12_ExistenceCheck ==
    /\ CalledOn("has", FALSE)
         => /\ last.threw = "none"
            /\ last.ret = Bool(Before # NoFile)
            /\ last.writes = 0
            /\ files = last.pre
    /\ (CalledOn("has", TRUE) /\ Before = NoFile)
         => /\ last.threw = "none"
            /\ last.ret = Bool(FALSE)
            /\ files = [last.pre EXCEPT ![LastPath] = Text(EmptyObj)]

\* has(k, "a") has created the file of a key that had none
C12_Witness ==
    /\ CalledOn("has", TRUE) /\ last.args.path = <<"a">>
    /\ Before = NoFile /\ Now = Text(EmptyObj)
    /\ last.ret = Bool(FALSE)

\* has(k) has answered true on a file that is no JSON and left it alone
C12_WitnessNoPath ==
    /\ CalledOn("has", FALSE)
    /\ Before = Corrupt /\ Now = Corrupt
    /\ last.ret = Bool(TRUE)

\* C13: no partial-failure state.  In every configuration and for every
\* operation, a call (with a JSON-representable value, where it takes one) that
\* raises has written nothing, so that every file is as it was before the call,
\* and hence a call that wrote has not raised.
C13_NoPartialFailure ==
    (/\ last # Idle /\ last.threw # "none"
     /\ last.op \in {"set", "ensure", "push"} => IsJson(last.args.value))
        => /\ last.writes = 0
           /\ files = last.pre

\* what a property assignment was made on: the object the caller kept, as it
\* was before the assignment, and whether it was a wrapper
AssignedOnWrapper == Called("assign") /\ last.wrapped
\* the property is one JSON text keeps: any property of an object, of an array
\* an index no further than its length
Representable(target, f) ==
    target.t = "obj" \/ (isIndex(f) /\ IndexOf(f) <= Len(target.a))

\* C14 as stated: observation wrapper persists.  With observation on, after
\* every assignment w[f] = y on a wrapper w returned by get(k) without a path,
\* by set or by push, the file of k holds the whole document held by w, in
\* which f is y, and get(k) returns that document.
C14_WrapperPersistsAny ==
    AssignedOnWrapper
        => /\ Readable(Now)
           /\ parse(Now) = stringify(held.target)
           /\ _get(parse(Now), <<last.args.field>>) = last.args.value
           /\ GetNow(NoPath).threw = "none"
           /\ GetNow(NoPath).ret = parse(Now)

\* C14 amended: the same, for the assignments of a property that JSON text
\* keeps: any property when w wraps an object, an index no further than the
\* length when w wraps an array.
C14_WrapperPersists ==
    (AssignedOnWrapper /\ Representable(last.target, last.args.field))
        => /\ Readable(Now)
           /\ parse(Now) = stringify(held.target)
           /\ _get(parse(Now), <<last.args.field>>) = last.args.value
           /\ \A q \in Apart(<<last.args.field>>) :
                 _get(parse(Now), q) = _get(stringify(last.target), q)
           /\ GetNow(NoPath).threw = "none"
           /\ GetNow(NoPath).ret = parse(Now)

\* w = get(k) was kept while the document was {a: []}, and w["0"] = "s" made
\* the file hold {a: [], 0: "s"}
C14_Witness ==
    /\ AssignedOnWrapper /\ last.from = "get"
    /\ last.target = Obj([k \in {"a"} |-> Arr(<<>>)])
    /\ last.args.field = "0" /\ last.args.value = Str("s")
    /\ Now = Text(Obj([k \in {"a", "0"} |-> IF k = "a" THEN Arr(<<>>) ELSE Str("s")]))

\* C15: observation of sub-values.  With observation on, a container returned
\* by get(k, p) is a wrapper too: after an assignment c[f] = y on it (of a
\* property JSON text keeps) the file of k holds the whole document again, and
\* get(k, p) returns a container in which f is y.
C15_SubValueObserved ==
    (/\ Called("assign") /\ proxy
     /\ last.from = "get" /\ ~isNilPath(last.args.path)
     /\ Representable(last.target, last.args.field))
        => /\ last.wrapped
           /\ last.writes > 0
           /\ GetNow(last.args.path).threw = "none"
           /\ _get(GetNow(last.args.path).ret, <<last.args.field>>) = last.args.value

\* the last call was w[f] = y on a wrapper kept from get(k), made when the
\* file of k no longer held the document of w
AssignedOnStale ==
    /\ AssignedOnWrapper /\ last.from = "get"
    /\ Before # Text(stringify(last.target))

\* C20 as stated: stale wrapper write.  With observation on, after w = get(k),
\* calls that replaced the document of k, and then w[f] = y: the file of k
\* holds the document w held plus f = y, whatever the file held just before
\* the assignment, and get(k) returns that document.
C20_StaleWrapperWriteAny ==
    AssignedOnStale
        => /\ Readable(Now)
           /\ parse(Now).t = last.target.t
           /\ _get(parse(Now), <<last.args.field>>) = last.args.value
           /\ \A q \in Apart(<<last.args.field>>) :
                 _get(parse(Now), q) = _get(last.target, q)
           /\ GetNow(NoPath).ret = parse(Now)

\* C20 amended: the same for the assignments of a property that JSON text
\* keeps; the members of a wrapped object are then those w held and f, so
\* that what a set stored in between is no longer there.
C20_StaleWrapperWrite ==
    (AssignedOnStale /\ Representable(last.target, last.args.field))
        => /\ Readable(Now)
           /\ parse(Now).t = last.target.t
           /\ last.target.t = "obj" =>
                 DOMAIN parse(Now).f = DOMAIN last.target.f \cup {last.args.field}
           /\ _get(parse(Now), <<last.args.field>>) = last.args.value
           /\ \A q \in Apart(<<last.args.field>>) :
                 _get(parse(Now), q) = _get(last.target, q)
           /\ GetNow(NoPath).ret = parse(Now)

\* w = get(k) was read as {}, set(k, [1]) then replaced the document, and
\* w.a = "s" left the file holding {a: "s"}
C20_Witness ==
    /\ AssignedOnWrapper /\ last.from = "get"
    /\ last.target = EmptyObj
    /\ Before = Text(Arr(<<Num(1)>>))
    /\ last.args.field = "a" /\ last.args.value = Str("s")
    /\ Now = Text(Obj([k \in {"a"} |-> Str("s")]))

\* both processes have returned from set, and neither was inside its call
\* while the other was
BothDone == \A p \in Procs : procs[p].pc = "done"
OneAfterTheOther == \A p \in Procs : procs[p].alone
\* the update of process p is in the file
UpdateIn(p) ==
    /\ Readable(files[RaceDbPath])
    /\ _has(parse(files[RaceDbPath]), RacePath[p])
    /\ _get(parse(files[RaceDbPath]), RacePath[p]) = procs[p].value

\* C16: lost-update race.  Two processes call set(k, v1, "a") and
\* set(k, v2, "b") on the same key.  Both always return without error, and
\* the file then holds at least one of the two updates; when one call ran
\* after the other had returned, the file holds both.  (That an interleaving
\* leaves only one of them is the state C16_Witness.)
C16_LostUpdate ==
    BothDone
        => /\ \A p \in Procs : procs[p].threw = "none"
           /\ \E p \in Procs : UpdateIn(p)
           /\ OneAfterTheOther => \A p \in Procs : UpdateIn(p)

\* both calls have returned, the second began while the first was inside its
\* call, and the file holds b = v2 but no a
C16_Witness ==
    /\ BothDone /\ ~OneAfterTheOther
    /\ \A p \in Procs : procs[p].threw = "none"
    /\ UpdateIn(2)
    /\ Readable(files[RaceDbPath])
    /\ ~_has(parse(files[RaceDbPath]), RacePath[1])

\* C17: set with a path on any document.  Whatever the file of k held (an
\* object, an array, a scalar, null, nothing), once set(k, v, p) has returned
\* for a JSON-representable v other than null, get(k, p) returns v and
\* has(k, p) returns true.
C17_SetWithPathAnyDocument ==
    (/\ CalledOn("set", TRUE) /\ last.threw = "none"
     /\ IsJson(last.args.value) /\ ~isNil(last.args.value))
        => /\ GetNow(last.args.path).threw = "none"
           /\ GetNow(last.args.path).ret = last.args.value
           /\ has(files, last.args.key, last.args.path).ret = Bool(TRUE)

\* C18: write-through in the variant part_000.  With observation off, once
\* set(k, v) or set(k, v, p) of the variant has returned for a JSON-representable
\* v, the file of k holds the updated document, which the call returned, and a
\* following get(k) returns it.
C18_WriteThrough ==
    (Called("set") /\ ~proxy /\ last.threw = "none" /\ IsJson(last.args.value))
        => /\ Now = Text(stringify(last.ret))
           /\ get_part000(files, last.args.key, NoPath).ret = stringify(last.ret)

\* the defaults a property tries ensure with
Defaults == {Num(1), Obj([k \in {"a"} |-> Num(1)])}

\* C19: ensure after an initializing read.  ensure(k, d) without a path goes
\* by the existence of the file alone.  When get(k) or has(k, p) has just
\* created the file of a key that had none, ensure(k, d) would return {} and
\* change no file; an ensure(k, d) called on a file holding {} has returned {}
\* and written nothing; and an ensure(k, d) called while the file existed has
\* not stored d: the files are as before, or the file that was not decodable
\* holds {}.
C19_EnsureAfterInitializingRead ==
    /\ ((Called("get") \/ CalledOn("has", TRUE)) /\ Before = NoFile
            /\ last.threw = "none")
         => \A d \in Defaults :
               /\ ensure(files, last.args.key, d, NoPath).threw = "none"
               /\ ensure(files, last.args.key, d, NoPath).ret = EmptyObj
               /\ ensure(files, last.args.key, d, NoPath).files = files
               /\ Now = Text(EmptyObj)
    /\ (CalledOn("ensure", FALSE) /\ ~isNil(last.args.value) /\ Before = Text(EmptyObj))
         => /\ last.threw = "none" /\ last.ret = EmptyObj
            /\ last.writes = 0
            /\ files = last.pre
    /\ (CalledOn("ensure", FALSE) /\ Before # NoFile)
         => files = IF Before = Corrupt /\ ~isNil(last.args.value)
                    THEN [last.pre EXCEPT ![LastPath] = Text(EmptyObj)]
                    ELSE last.pre

\* ensure(k, {a: 1}) was called on a file holding {} and returned {}
C19_Witness ==
    /\ CalledOn("ensure", FALSE)
    /\ last.args.value = Obj([k \in {"a"} |-> Num(1)])
    /\ Before = Text(EmptyObj) /\ Now = Text(EmptyObj)
    /\ last.ret = EmptyObj

====
